---- MODULE Spec2Model ----
(***************************************************************************)
(* Model of generator.py: the lock-and-key exploration tree generator.     *)
(* Python objects live in a heap (a sequence of node records, a node       *)
(* reference is its index); TreeConfig objects live in `configs` because   *)
(* the tail call of generate_exploration_tree shares the object by         *)
(* reference.  The recursion is an explicit call stack of frames.          *)
(***************************************************************************)
EXTENDS Integers, Sequences, FiniteSets, TLC

VARIABLES heap, configs, stack, ret, exploration_tree,
          id_alphaindex, id_numindex, key_alphaindex, key_numindex,
          chosen_log, gnwb_call, ids_returned, keys_returned

vars == <<heap, configs, stack, ret, exploration_tree,
          id_alphaindex, id_numindex, key_alphaindex, key_numindex,
          chosen_log, gnwb_call, ids_returned, keys_returned>>

(* ------------------------------ bounds --------------------------------- *)
MaxGates == 3
MaxNegQuota == 2
MaxCalls == 28

(* ----------------------------- constants ------------------------------- *)
GATE_TYPE == "GATE"
KEY_TYPE == "KEY"
BRANCH_TYPE == "BRANCH"
AlphabetLen == 26
NoNode == 0

ascii_uppercase ==
  <<"A","B","C","D","E","F","G","H","I","J","K","L","M",
    "N","O","P","Q","R","S","T","U","V","W","X","Y","Z">>

ID_PREFIX == <<"I","D","_">>
KEY_PREFIX == <<"K","E","Y","_">>
EXIT_VALUE == <<"E","X","I","T">>

Digits == <<"0","1","2","3","4","5","6","7","8","9">>

(* str(n) for a non-negative integer: its decimal digits. *)
RECURSIVE str(_)
str(n) == IF n < 10 THEN <<Digits[n + 1]>>
          ELSE str(n \div 10) \o <<Digits[(n % 10) + 1]>>

Range(s) == {s[i] : i \in DOMAIN s}

(* [x for x in s if x not in drop] *)
FilterOut(s, drop) == SelectSeq(s, LAMBDA x : x \notin drop)

(* --------------------------- id generators ----------------------------- *)
(* The wrap of the alphabet index, mutated: the numeric suffix is not      *)
(* advanced when the letter wraps.                                         *)
gen_id_nowrapnum(a, n) ==
  LET a1 == IF a >= AlphabetLen THEN 0 ELSE a
  IN [value |-> ID_PREFIX \o <<ascii_uppercase[a1 + 1]>> \o str(n),
      alphaindex |-> a1 + 1, numindex |-> n]

gen_id(a, n) ==
  LET a1 == IF a >= AlphabetLen THEN 0 ELSE a
      n1 == IF a >= AlphabetLen THEN n + 1 ELSE n
  IN [value |-> ID_PREFIX \o <<ascii_uppercase[a1 + 1]>> \o str(n1),
      alphaindex |-> a1 + 1, numindex |-> n1]

gen_key_value(a, n) ==
  LET a1 == IF a >= AlphabetLen THEN 0 ELSE a
      n1 == IF a >= AlphabetLen THEN n + 1 ELSE n
  IN [value |-> KEY_PREFIX \o <<ascii_uppercase[a1 + 1]>> \o str(n1),
      alphaindex |-> a1 + 1, numindex |-> n1]

(* ------------------------- object construction ------------------------- *)
(* A machine record m threads the heap and the four global counters        *)
(* through the constructors; the new object is the last heap entry.        *)
Machine == [heap |-> heap,
            id_alphaindex |-> id_alphaindex, id_numindex |-> id_numindex,
            key_alphaindex |-> key_alphaindex, key_numindex |-> key_numindex]

Alloc(m, fields) ==
  LET g == gen_id(m.id_alphaindex, m.id_numindex)
  IN [m EXCEPT !.heap = Append(@, [fields EXCEPT !.node_id = g.value]),
               !.id_alphaindex = g.alphaindex,
               !.id_numindex = g.numindex]

BlankNode == [node_id |-> <<>>, node_type |-> "", destination |-> NoNode,
              requirements |-> <<>>, paths |-> <<>>, key_value |-> <<>>]

GateNode(m, destination, requirements) ==
  Alloc(m, [BlankNode EXCEPT !.node_type = GATE_TYPE,
                              !.destination = destination,
                              !.requirements = requirements])

BranchNode(m, paths) ==
  Alloc(m, [BlankNode EXCEPT !.node_type = BRANCH_TYPE, !.paths = paths])

KeyNode(m, key_value) ==
  Alloc(m, [BlankNode EXCEPT !.node_type = KEY_TYPE, !.key_value = key_value])

addRequirement(m, gate, requirement) ==
  [m EXCEPT !.heap[gate].requirements = Append(@, requirement)]

TreeConfig(total_num_gates_to_generate) ==
  [total_num_gates_to_generate |-> total_num_gates_to_generate,
   num_gates_remaining_to_generate |-> total_num_gates_to_generate,
   keys_remaining_to_place |-> <<>>]

(* Mutant: the copy keeps the pending keys. *)
copy_with_keys(cfg) ==
  [TreeConfig(cfg.num_gates_remaining_to_generate)
     EXCEPT !.keys_remaining_to_place = cfg.keys_remaining_to_place]

copy_without_keys(cfg) == TreeConfig(cfg.num_gates_remaining_to_generate)

(* Mutant: the key value is not recorded as the gate's requirement. *)
generate_key_node_for_gate_noreq(m, gate) ==
  LET k == gen_key_value(m.key_alphaindex, m.key_numindex)
      m1 == [m EXCEPT !.key_alphaindex = k.alphaindex,
                      !.key_numindex = k.numindex]
  IN KeyNode(m1, k.value)

(* generate_key_node_for_gate: the new KeyNode is the last heap entry. *)
generate_key_node_for_gate(m, gate) ==
  LET k == gen_key_value(m.key_alphaindex, m.key_numindex)
      m1 == [m EXCEPT !.key_alphaindex = k.alphaindex,
                      !.key_numindex = k.numindex]
      m2 == addRequirement(m1, gate, k.value)
  IN KeyNode(m2, k.value)

(* Mutant: a BranchNode is built for a single branch too. *)
generate_node_with_branches_nocollapse(m, branches) ==
  IF Len(branches) > 0
  THEN LET m1 == BranchNode(m, branches)
       IN [m |-> m1, node |-> Len(m1.heap)]
  ELSE [m |-> m, node |-> NoNode]

(* generate_node_with_branches: branches[0] of an empty list raises; the   *)
(* model returns NoNode there.                                             *)
generate_node_with_branches(m, branches) ==
  IF Len(branches) > 1
  THEN LET m1 == BranchNode(m, branches)
       IN [m |-> m1, node |-> Len(m1.heap)]
  ELSE IF Len(branches) = 1 THEN [m |-> m, node |-> branches[1]]
       ELSE [m |-> m, node |-> NoNode]

(* Mutants of the base case's branch list. *)
base_branches_nokeys(keys, destination_tree) == <<destination_tree>>

base_branches_destfirst(keys, destination_tree) == <<destination_tree>> \o keys

(* Lines 137-140: pending keys, then the destination. *)
base_branches(keys, destination_tree) == keys \o <<destination_tree>>

(* Mutant: the quota test is an equality. *)
no_gates_remaining_eq(cfg) == cfg.num_gates_remaining_to_generate = 0

(* Line 134. *)
no_gates_remaining(cfg) == cfg.num_gates_remaining_to_generate <= 0

(* Mutant: the quota is spent twice. *)
spend_two_gates(cfg) == [cfg EXCEPT !.num_gates_remaining_to_generate = @ - 2]

(* Line 151. *)
spend_gate(cfg) == [cfg EXCEPT !.num_gates_remaining_to_generate = @ - 1]

(* Mutant: the chosen keys stay pending. *)
remove_placed_keep(keys, keys_to_place) == keys

(* Line 158. *)
remove_placed(keys, keys_to_place) == FilterOut(keys, Range(keys_to_place))

(* choose_some_keys: every sub-list of the pending keys is a possible      *)
(* outcome of the independent random.choice([True, False]) draws.          *)
choose_some_keys(cfg) ==
  {FilterOut(cfg.keys_remaining_to_place,
             Range(cfg.keys_remaining_to_place) \ keep) :
     keep \in SUBSET Range(cfg.keys_remaining_to_place)}

(* ------------------------------ frames --------------------------------- *)
Frame(destination_tree, tree_config) ==
  [pc |-> "entry", destination_tree |-> destination_tree,
   tree_config |-> tree_config, branches |-> <<>>, keys_to_place |-> <<>>,
   key |-> NoNode, cfg_at_call |-> TreeConfig(0)]

Top == stack[Len(stack)]
Pop(s) == SubSeq(s, 1, Len(s) - 1)
SetTop(s, f) == [s EXCEPT ![Len(s)] = f]

SetMachine(m) ==
  /\ heap' = m.heap
  /\ id_alphaindex' = m.id_alphaindex
  /\ id_numindex' = m.id_numindex
  /\ key_alphaindex' = m.key_alphaindex
  /\ key_numindex' = m.key_numindex

Quotas == (0 - MaxNegQuota) .. MaxGates

(* Lines 10-13 and 194-195: exit_node = KeyNode("EXIT"),                   *)
(* tree_config = TreeConfig(N); line 196 is about to call.                 *)
Init ==
  \E n \in Quotas :
    LET m0 == [heap |-> <<>>, id_alphaindex |-> 0, id_numindex |-> 1,
               key_alphaindex |-> 0, key_numindex |-> 1]
        m1 == KeyNode(m0, EXIT_VALUE)
    IN /\ heap = m1.heap
       /\ id_alphaindex = m1.id_alphaindex
       /\ id_numindex = m1.id_numindex
       /\ key_alphaindex = m1.key_alphaindex
       /\ key_numindex = m1.key_numindex
       /\ configs = <<TreeConfig(n)>>
       /\ stack = <<Frame(1, 1)>>
       /\ ret = NoNode
       /\ exploration_tree = NoNode
       /\ chosen_log = <<>>
       /\ gnwb_call = [called |-> FALSE, branches |-> <<>>, node |-> NoNode]
       /\ ids_returned = <<>>
       /\ keys_returned = <<>>

(* Lines 134-141. *)
BaseCase ==
  /\ stack # <<>>
  /\ Top.pc = "entry"
  /\ no_gates_remaining(configs[Top.tree_config])
  /\ LET cfg == configs[Top.tree_config]
         branches == base_branches(cfg.keys_remaining_to_place,
                                   Top.destination_tree)
         r == generate_node_with_branches(Machine, branches)
     IN /\ SetMachine(r.m)
        /\ configs' = [configs EXCEPT
                         ![Top.tree_config].keys_remaining_to_place = <<>>]
        /\ gnwb_call' = [called |-> TRUE, branches |-> branches,
                         node |-> r.node]
        /\ ret' = r.node
        /\ stack' = Pop(stack)
  /\ UNCHANGED <<exploration_tree, chosen_log, ids_returned, keys_returned>>

(* Lines 143-158. *)
RecursiveCase ==
  /\ stack # <<>>
  /\ Top.pc = "entry"
  /\ ~ no_gates_remaining(configs[Top.tree_config])
  /\ \E m1 \in {GateNode(Machine, Top.destination_tree, <<>>)} :
     \E m2 \in {generate_key_node_for_gate(m1, Len(m1.heap))} :
     \E cfg1 \in {spend_gate(configs[Top.tree_config])} :
     \E cfg2 \in {[cfg1 EXCEPT !.keys_remaining_to_place =
                                 Append(@, Len(m2.heap))]} :
     \E keys_to_place \in choose_some_keys(cfg2) :
       /\ SetMachine(m2)
       /\ configs' = [configs EXCEPT ![Top.tree_config] =
                        [cfg2 EXCEPT !.keys_remaining_to_place =
                           remove_placed(@, keys_to_place)]]
       /\ stack' = SetTop(stack, [Top EXCEPT !.pc = "loop",
                                             !.branches = <<Len(m1.heap)>>,
                                             !.keys_to_place = keys_to_place])
       /\ chosen_log' = Append(chosen_log, keys_to_place)
  /\ UNCHANGED <<ret, exploration_tree, gnwb_call, ids_returned, keys_returned>>

(* Lines 159-160, the call: one key of keys_to_place gets its sub-tree,    *)
(* generated under a copy of the configuration.                            *)
LoopCall ==
  /\ stack # <<>>
  /\ Top.pc = "loop"
  /\ Top.keys_to_place # <<>>
  /\ LET key == Head(Top.keys_to_place)
         sub == copy_without_keys(configs[Top.tree_config])
     IN /\ configs' = Append(configs, sub)
        /\ stack' = Append(SetTop(stack,
                        [Top EXCEPT !.pc = "loop_wait",
                                    !.key = key,
                                    !.keys_to_place = Tail(@),
                                    !.cfg_at_call = configs[Top.tree_config]]),
                      Frame(key, Len(configs) + 1))
  /\ UNCHANGED <<heap, id_alphaindex, id_numindex, key_alphaindex,
                 key_numindex, ret, exploration_tree, chosen_log, gnwb_call,
                 ids_returned, keys_returned>>

(* Line 160, the return: branches.append(<sub-tree>). *)
ReturnToLoop ==
  /\ stack # <<>>
  /\ Top.pc = "loop_wait"
  /\ ret # NoNode
  /\ stack' = SetTop(stack, [Top EXCEPT !.pc = "loop",
                                        !.branches = Append(@, ret)])
  /\ ret' = NoNode
  /\ UNCHANGED <<heap, configs, id_alphaindex, id_numindex, key_alphaindex,
                 key_numindex, exploration_tree, chosen_log, gnwb_call,
                 ids_returned, keys_returned>>

(* Lines 163-166, the call: the current node is built and becomes the      *)
(* destination of the rest of the tree, under the same configuration.      *)
LoopDone ==
  /\ stack # <<>>
  /\ Top.pc = "loop"
  /\ Top.keys_to_place = <<>>
  /\ LET r == generate_node_with_branches(Machine, Top.branches)
     IN /\ SetMachine(r.m)
        /\ gnwb_call' = [called |-> TRUE, branches |-> Top.branches,
                         node |-> r.node]
        /\ stack' = Append(SetTop(stack, [Top EXCEPT !.pc = "tail_wait"]),
                           Frame(r.node, Top.tree_config))
  /\ UNCHANGED <<configs, ret, exploration_tree, chosen_log,
                 ids_returned, keys_returned>>

(* Line 166, the return. *)
ReturnTail ==
  /\ stack # <<>>
  /\ Top.pc = "tail_wait"
  /\ ret # NoNode
  /\ stack' = Pop(stack)
  /\ UNCHANGED <<heap, configs, ret, id_alphaindex, id_numindex,
                 key_alphaindex, key_numindex, exploration_tree, chosen_log,
                 gnwb_call, ids_returned, keys_returned>>

(* Line 196: exploration_tree = <result>. *)
Finish ==
  /\ stack = <<>>
  /\ ret # NoNode
  /\ exploration_tree = NoNode
  /\ exploration_tree' = ret
  /\ ret' = NoNode
  /\ UNCHANGED <<heap, configs, stack, id_alphaindex, id_numindex,
                 key_alphaindex, key_numindex, chosen_log, gnwb_call,
                 ids_returned, keys_returned>>

Next ==
  \/ BaseCase
  \/ RecursiveCase
  \/ LoopCall
  \/ ReturnToLoop
  \/ LoopDone
  \/ ReturnTail
  \/ Finish

Spec == Init /\ [][Next]_vars

(* The interpreter runs the single call chain to completion. *)
FairSpec == Spec /\ WF_vars(Next)

(* ----------------- the generators called on their own ------------------ *)
(* Lines 10-13: the module's counters as loaded; gen_id and gen_key_value  *)
(* are then called in any interleaving and their results recorded.         *)
InitGen ==
  /\ heap = <<>>
  /\ configs = <<>>
  /\ stack = <<>>
  /\ ret = NoNode
  /\ exploration_tree = NoNode
  /\ id_alphaindex = 0
  /\ id_numindex = 1
  /\ key_alphaindex = 0
  /\ key_numindex = 1
  /\ chosen_log = <<>>
  /\ gnwb_call = [called |-> FALSE, branches |-> <<>>, node |-> NoNode]
  /\ ids_returned = <<>>
  /\ keys_returned = <<>>

CallGenId ==
  /\ Len(ids_returned) < MaxCalls
  /\ LET g == gen_id(id_alphaindex, id_numindex)
     IN /\ id_alphaindex' = g.alphaindex
        /\ id_numindex' = g.numindex
        /\ ids_returned' = Append(ids_returned, g.value)
  /\ UNCHANGED <<heap, configs, stack, ret, exploration_tree, key_alphaindex,
                 key_numindex, chosen_log, gnwb_call, keys_returned>>

CallGenKeyValue ==
  /\ Len(keys_returned) < MaxCalls
  /\ LET k == gen_key_value(key_alphaindex, key_numindex)
     IN /\ key_alphaindex' = k.alphaindex
        /\ key_numindex' = k.numindex
        /\ keys_returned' = Append(keys_returned, k.value)
  /\ UNCHANGED <<heap, configs, stack, ret, exploration_tree, id_alphaindex,
                 id_numindex, chosen_log, gnwb_call, ids_returned>>

NextGen ==
  \/ CallGenId
  \/ CallGenKeyValue

SpecGen == InitGen /\ [][NextGen]_vars

(* ----------------------- reading the generated tree -------------------- *)
Nodes == 1 .. Len(heap)
ExitNode == 1
Done == exploration_tree # NoNode
Requested == configs[1].total_num_gates_to_generate

IsGate(n) == heap[n].node_type = GATE_TYPE
IsKey(n) == heap[n].node_type = KEY_TYPE
IsBranch(n) == heap[n].node_type = BRANCH_TYPE

Children(n) ==
  IF IsGate(n) THEN {heap[n].destination}
  ELSE IF IsBranch(n) THEN Range(heap[n].paths)
  ELSE {}

RECURSIVE Closure(_)
Closure(S) ==
  LET T == S \cup UNION {Children(n) : n \in S}
  IN IF T = S THEN S ELSE Closure(T)

Subtree(n) == Closure({n})
Descendants(n) == Closure(Children(n))

GatesIn(S) == {n \in S : IsGate(n)}
KeysIn(S) == {n \in S : IsKey(n)}
NonExitKeysIn(S) == {n \in S : IsKey(n) /\ heap[n].key_value # EXIT_VALUE}

(* The places a node is referenced from: <<parent, slot>> pairs, slot 0   *)
(* for GateNode.destination and i for BranchNode.paths[i].                 *)
References(n) ==
  {<<p, 0>> : p \in {q \in Nodes : IsGate(q) /\ heap[q].destination = n}}
  \cup UNION {{<<p, i>> : i \in {j \in DOMAIN heap[p].paths :
                                   heap[p].paths[j] = n}} :
                p \in {q \in Nodes : IsBranch(q)}}

KeysWithValue(S, v) == {k \in KeysIn(S) : heap[k].key_value = v}
GatesRequiring(S, v) == {g \in GatesIn(S) : v \in Range(heap[g].requirements)}

(* The explorer: from a set of visited nodes, holding the key values of    *)
(* the visited KeyNodes, walk down any path of a visited BranchNode and    *)
(* through any visited GateNode all of whose requirements are held.        *)
RECURSIVE Explore(_)
Explore(visited) ==
  LET held == {heap[k].key_value : k \in KeysIn(visited)}
      step == UNION {IF IsBranch(n) THEN Range(heap[n].paths)
                     ELSE IF IsGate(n) /\ Range(heap[n].requirements) \subseteq held
                          THEN {heap[n].destination}
                          ELSE {} : n \in visited}
      T == visited \cup step
  IN IF T = visited THEN visited ELSE Explore(T)

AtBaseCase ==
  /\ stack # <<>>
  /\ Top.pc = "entry"
  /\ no_gates_remaining(configs[Top.tree_config])

AtRecursiveCase ==
  /\ stack # <<>>
  /\ Top.pc = "entry"
  /\ ~ no_gates_remaining(configs[Top.tree_config])

SubtreeReturned ==
  /\ stack # <<>>
  /\ Top.pc = "loop_wait"
  /\ ret # NoNode

(* ------------------------------- claims -------------------------------- *)

(* C1: for every requested gate count N >= 0 the returned tree contains    *)
(* exactly N GateNodes and exactly N non-EXIT KeyNodes.                    *)
C1_ExactGateCount ==
  (Done /\ Requested >= 0) =>
     /\ Cardinality(GatesIn(Subtree(exploration_tree))) = Requested
     /\ Cardinality(NonExitKeysIn(Subtree(exploration_tree))) = Requested

(* C2: in the returned tree every GateNode has exactly one requirement,    *)
(* exactly one KeyNode of the tree carries that value, that KeyNode is not *)
(* inside the gate's destination sub-tree, and every non-EXIT KeyNode's    *)
(* value is the requirement of exactly one GateNode.                       *)
C2_GateKeyPairing ==
  Done =>
    LET tree == Subtree(exploration_tree)
    IN /\ \A g \in GatesIn(tree) :
            /\ Len(heap[g].requirements) = 1
            /\ Cardinality(KeysWithValue(tree, heap[g].requirements[1])) = 1
            /\ KeysWithValue(Subtree(heap[g].destination),
                             heap[g].requirements[1]) = {}
       /\ \A k \in NonExitKeysIn(tree) :
            Cardinality(GatesRequiring(tree, heap[k].key_value)) = 1

C2_Witness ==
  /\ Done
  /\ Cardinality(GatesIn(Subtree(exploration_tree))) >= 3
  /\ \E e \in DOMAIN chosen_log : chosen_log[e] # <<>>

(* C3: the returned tree is solvable: an explorer starting at the root     *)
(* with no keys reaches the EXIT KeyNode.                                  *)
C3_Solvable ==
  Done => ExitNode \in Explore({exploration_tree})

C3_Witness ==
  /\ Done
  /\ ExitNode \in Explore({exploration_tree})
  /\ Cardinality(GatesIn(Subtree(exploration_tree))) >= 2
  /\ \E e \in DOMAIN chosen_log : Len(chosen_log[e]) >= 2

(* C4: no BranchNode has fewer than 2 children;                            *)
(* generate_node_with_branches returns the lone child for one branch and   *)
(* is never called with an empty list.                                     *)
C4_BranchCollapsing ==
  /\ \A n \in Nodes : IsBranch(n) => Len(heap[n].paths) >= 2
  /\ gnwb_call.called =>
       /\ gnwb_call.branches # <<>>
       /\ Len(gnwb_call.branches) = 1 => gnwb_call.node = gnwb_call.branches[1]

C4_Witness ==
  /\ gnwb_call.called
  /\ Len(gnwb_call.branches) = 1
  /\ \E n \in Nodes : IsBranch(n)

(* C5: no sharing: every node is referenced at most once as a              *)
(* GateNode.destination or BranchNode.paths entry, the returned root is    *)
(* referenced by nothing, and no node of the tree is its own descendant.   *)
C5_NoSharing ==
  /\ \A n \in Nodes : Cardinality(References(n)) <= 1
  /\ Done =>
       /\ References(exploration_tree) = {}
       /\ \A n \in Subtree(exploration_tree) : n \notin Descendants(n)

C5_Witness ==
  /\ Done
  /\ \E n \in Subtree(exploration_tree) : IsBranch(n) /\ Len(heap[n].paths) >= 3
  /\ Cardinality(GatesIn(Subtree(exploration_tree))) >= 2

(* C6: a call with quota <= 0 and no pending keys returns the destination  *)
(* itself, creates no node, and leaves the configuration and the counters  *)
(* unchanged, for negative quotas as for zero.                             *)
C6_ZeroQuotaReturnsDestination ==
  [][(/\ stack # <<>>
      /\ Top.pc = "entry"
      /\ configs[Top.tree_config].num_gates_remaining_to_generate <= 0
      /\ configs[Top.tree_config].keys_remaining_to_place = <<>>)
     => /\ ret' = Top.destination_tree
        /\ heap' = heap
        /\ configs' = configs
        /\ id_alphaindex' = id_alphaindex
        /\ id_numindex' = id_numindex
        /\ key_alphaindex' = key_alphaindex
        /\ key_numindex' = key_numindex]_vars

C6_Witness ==
  /\ Done
  /\ Requested < 0
  /\ exploration_tree = ExitNode
  /\ Len(heap) = 1

(* The passes through the recursive case still on the stack for the       *)
(* TreeConfig object c.                                                    *)
C7_PassesOn(c) ==
  Cardinality({i \in 1 .. (Len(stack) - 1) :
                 stack[i].tree_config = c /\ stack[i].pc = "tail_wait"})

C8_NoChoice == \A e \in DOMAIN chosen_log : chosen_log[e] = <<>>

(* C8: gate count 1 and no key ever chosen for downstream placement: the   *)
(* root is a BranchNode whose paths are the new KeyNode then the GateNode; *)
(* the gate's destination is the EXIT KeyNode and its requirements are     *)
(* exactly the sibling key's value.                                        *)
C8_ScenarioB ==
  (Done /\ Requested = 1 /\ C8_NoChoice) =>
     /\ IsBranch(exploration_tree)
     /\ Len(heap[exploration_tree].paths) = 2
     /\ LET k == heap[exploration_tree].paths[1]
            g == heap[exploration_tree].paths[2]
        IN /\ IsKey(k)
           /\ IsGate(g)
           /\ heap[g].destination = ExitNode
           /\ heap[ExitNode].key_value = EXIT_VALUE
           /\ heap[g].requirements = <<heap[k].key_value>>
           /\ heap[k].key_value = <<"K","E","Y","_","A","1">>

C8_Witness ==
  /\ Done
  /\ Requested = 1
  /\ C8_NoChoice
  /\ IsBranch(exploration_tree)

(* C9: no two calls of gen_id return the same string, no two calls of      *)
(* gen_key_value do, and no string of one is a string of the other.        *)
C9_UniqueIds ==
  /\ \A i, j \in DOMAIN ids_returned :
       i # j => ids_returned[i] # ids_returned[j]
  /\ \A i, j \in DOMAIN keys_returned :
       i # j => keys_returned[i] # keys_returned[j]
  /\ Range(ids_returned) \cap Range(keys_returned) = {}

C9_Witness ==
  /\ Len(ids_returned) > AlphabetLen
  /\ Len(keys_returned) > AlphabetLen

(* C10: the sub-tree returned for a key chosen for downstream placement is *)
(* self-contained: every gate in it has its key in it, the chosen key is   *)
(* the only KeyNode in it required by a gate outside it, and the caller's  *)
(* quota and pending-key list are as they were at the call.                *)
C10_SelfContainedSubtree ==
  SubtreeReturned =>
    LET S == Subtree(ret)
    IN /\ \A g \in GatesIn(S) :
            \A r \in Range(heap[g].requirements) : KeysWithValue(S, r) # {}
       /\ {k \in KeysIn(S) :
             GatesRequiring(Nodes \ S, heap[k].key_value) # {}} = {Top.key}
       /\ configs[Top.tree_config] = Top.cfg_at_call

C10_Witness ==
  /\ SubtreeReturned
  /\ GatesIn(Subtree(ret)) # {}
  /\ Top.cfg_at_call.keys_remaining_to_place # <<>>

====
